---- MODULE Spec2Model ----
(***************************************************************************)
(* The vending-machine publish/subscribe core of simple-pubsub (app.ts):   *)
(* the PubSubService registry, the MachineRepository and the four          *)
(* subscribers.  All dispatch is synchronous call/return, so one published *)
(* event, with every handler it reaches and every derived event those      *)
(* handlers publish re-entrantly, is one step of the model.  What happened *)
(* inside the step is kept in `last.out`: the calls, handler entries, log  *)
(* lines and stockLevel writes, in program order.                          *)
(***************************************************************************)
EXTENDS Integers, Sequences, FiniteSets, TLC

VARIABLES
    subscribers,  \* PubSubService.subscribers: event type -> list of handlers
    machines,     \* MachineRepository.machines: id -> that Machine's stockLevel
    last,         \* the last call made on the service, and what it did
    instance,     \* the static field PubSubService.instance
    service,      \* the program's reference to the service (pubSubService)
    history       \* not program state: the unsubscribe calls so far

vars == <<subscribers, machines, last, instance, service, history>>

----------------------------------------------------------------------------
\* Program constants.

STOCK_THRESHOLD == 3

\* Machine.stockLevel of a newly constructed Machine.
InitialStock == 10

\* PubSubService.instance before the first getInstance call (undefined).
\* The service objects are numbered from 1 in the order of construction.
NoInstance == 0

\* enum MachineEventType
MachineEventType == {"SALE", "REFILL", "LOW_STOCK", "STOCK_OK"}

\* The four subscriber objects the program constructs, one per class.
Subscribers ==
    {"saleSubscriber", "refillSubscriber",
     "stockWarningSubscriber", "stockOKSubscriber"}

----------------------------------------------------------------------------
\* Bounds of the model.

\* Total number of registrations held by the registry.
MaxSubs == 3

\* Publishes that would take a stockLevel above MaxStock or below -MaxDebt
\* are not explored.
MaxStock == 12

MaxDebt == 1

\* Interleaved handlings write no level below -MaxOverdraft.
MaxOverdraft == 4

\* Ids saved in the repository by the main program, and an id never saved.
SavedIds == {"001"}

UnknownIds == {"404"}

MachineIds == SavedIds \cup UnknownIds

\* Quantities events are constructed with (the constructors validate nothing).
Quantities == {-1, 0, 2, 3, 8}

\* Quantities of the events addressed to an id that was never saved.
UnknownQuantities == {2}

\* subscribe/unsubscribe calls explored: every subscriber on the kind it was
\* written for, and the sale subscriber on LOW_STOCK as well, a kind whose
\* events it cannot read (subscribe accepts any handler for any kind).
Registrations ==
    {<<"SALE", "saleSubscriber">>,
     <<"REFILL", "refillSubscriber">>,
     <<"LOW_STOCK", "stockWarningSubscriber">>,
     <<"STOCK_OK", "stockOKSubscriber">>,
     <<"LOW_STOCK", "saleSubscriber">>}

----------------------------------------------------------------------------
\* Events.

MachineSaleEvent(sold, id) == [type |-> "SALE", machineId |-> id, sold |-> sold]

MachineRefillEvent(refill, id) ==
    [type |-> "REFILL", machineId |-> id, refill |-> refill]

LowStockWarningEvent(id) == [type |-> "LOW_STOCK", machineId |-> id]

StockOKEvent(id) == [type |-> "STOCK_OK", machineId |-> id]

Events ==
    {MachineSaleEvent(q, id) : q \in Quantities, id \in SavedIds}
    \cup {MachineRefillEvent(q, id) : q \in Quantities, id \in SavedIds}
    \cup {MachineSaleEvent(q, id) : q \in UnknownQuantities, id \in UnknownIds}
    \cup {MachineRefillEvent(q, id) : q \in UnknownQuantities, id \in UnknownIds}
    \cup {LowStockWarningEvent(id) : id \in MachineIds}
    \cup {StockOKEvent(id) : id \in MachineIds}

\* event.getSoldQuantity / event.getRefillQuantity exist on one class each;
\* calling a missing method raises a TypeError.
hasGetSoldQuantity(event) == event.type = "SALE"

hasGetRefillQuantity(event) == event.type = "REFILL"

----------------------------------------------------------------------------
\* The running call: the repository's stock levels, the output so far and
\* the exception in flight ("none" when there is none).

Emit(st, entry) == [st EXCEPT !.out = Append(@, entry)]

Raise(st, name) == [st EXCEPT !.exc = name]

\* console.error(text) / console.log(text) about machine id ("" when the
\* line names no machine).
consoleError(st, text) == Emit(st, [k |-> "error", text |-> text, id |-> ""])

consoleLog(st, text, id) == Emit(st, [k |-> "log", text |-> text, id |-> id])

\* MachineRepository.findById: whether a Machine is returned.
findById(ms, id) == id \in DOMAIN ms

\* An assignment to machine.stockLevel.  The repository holds the Machine
\* object itself, so the write is visible through the repository at once.
setStockLevel(st, id, level) ==
    Emit([st EXCEPT !.machines[id] = level],
         [k |-> "write", id |-> id, level |-> level])

\* MachineRepository.update: raises when the id is absent, otherwise stores
\* the same Machine object under its id again.
update(st, id) ==
    IF id \notin DOMAIN st.machines THEN Raise(st, "Error") ELSE st

\* this.subscribers.get(type) || []: a kind with no list reads as the empty
\* list, and publish, subscribe and unsubscribe read the map in no other way,
\* so the registry keeps <<>> for both.
getHandlers(subs, type) == subs[type]

\* getInstance constructing a new service on every call.
getInstance_New(inst) == inst + 1

\* PubSubService.getInstance, on the static field: the field after the call,
\* which is also the object returned.  The constructor is private, so this
\* is the only place a service is constructed.
getInstance(inst) == IF inst = NoInstance THEN inst + 1 ELSE inst

\* PubSubService.getInstance() called while an event is being handled: the
\* object returned is the receiver of the publish call that follows.
getInstanceIn(st) ==
    LET got == getInstance(st.instance)
    IN  Emit([st EXCEPT !.instance = got, !.self = got],
             [k |-> "getInstance", returned |-> got])

\* The subscribers map of a service object.  The program subscribes through
\* its own reference only, so any other object has the map it was
\* constructed with, which is empty.
subscribersOf(self) ==
    IF self = service THEN subscribers ELSE [t \in MachineEventType |-> <<>>]

----------------------------------------------------------------------------
\* Dispatch.

RECURSIVE publish(_, _, _)

\* SaleCommit with the rollback assignment left out of the catch block.
SaleCommit_NoRollback(st, id, stockBefore) ==
    IF st.machines[id] < 0
    THEN update(
             consoleLog(
                 consoleError(st, "Stock level cannot be negative"),
                 "Rolling back stock level", ""),
             id)
    ELSE update(st, id)

\* SaleCommit selling what stock there is: a negative level becomes 0.
SaleCommit_Clamp(st, id, stockBefore) ==
    IF st.machines[id] < 0
    THEN update(setStockLevel(st, id, 0), id)
    ELSE update(st, id)

\* The try/catch of MachineSaleSubscriber.handle, entered after the
\* decrement: validate and commit, or report, roll back and commit.
SaleCommit(st, id, stockBefore) ==
    IF st.machines[id] < 0
    THEN update(
             setStockLevel(
                 consoleLog(
                     consoleError(st, "Stock level cannot be negative"),
                     "Rolling back stock level", ""),
                 id, stockBefore),
             id)
    ELSE update(st, id)

\* SaleThreshold comparing with <= instead of <.
SaleThreshold_Inclusive(st, id, depth) ==
    IF st.exc # "none" THEN st
    ELSE IF st.machines[id] <= STOCK_THRESHOLD
         THEN publish(LowStockWarningEvent(id), getInstanceIn(st),
                      depth + 1)
         ELSE st

\* SaleThreshold looking through the whole repository and warning about a
\* machine it finds below the threshold, whichever the sale was addressed to.
SaleThreshold_AnyMachine(st, id, depth) ==
    LET low == {i \in DOMAIN st.machines : st.machines[i] < STOCK_THRESHOLD}
    IN  IF st.exc # "none" \/ low = {} THEN st
        ELSE publish(LowStockWarningEvent(
                         CHOOSE i \in low : \A o \in low : st.machines[i] <= st.machines[o]),
                     getInstanceIn(st), depth + 1)

\* The threshold check that ends MachineSaleSubscriber.handle.
SaleThreshold(st, id, depth) ==
    IF st.exc # "none" THEN st
    ELSE IF st.machines[id] < STOCK_THRESHOLD
         THEN publish(LowStockWarningEvent(id), getInstanceIn(st),
                      depth + 1)
         ELSE st

\* The sale handler warning only when the sale crosses the threshold, the
\* way the refill handler reports StockOK.
MachineSaleSubscriber_handle_Edge(event, st, depth) ==
    LET id == event.machineId IN
    IF ~findById(st.machines, id) THEN st
    ELSE IF ~hasGetSoldQuantity(event) THEN Raise(st, "TypeError")
    ELSE LET stockBefore == st.machines[id]
             dec == setStockLevel(st, id, stockBefore - event.sold)
             done == SaleCommit(dec, id, stockBefore)
         IN  IF /\ done.exc = "none"
                /\ stockBefore >= STOCK_THRESHOLD
                /\ done.machines[id] < STOCK_THRESHOLD
             THEN publish(LowStockWarningEvent(id), getInstanceIn(done),
                      depth + 1)
             ELSE done

\* The sale handler raising for a machine it does not find.
MachineSaleSubscriber_handle_Strict(event, st, depth) ==
    LET id == event.machineId IN
    IF ~findById(st.machines, id) THEN Raise(st, "Error")
    ELSE IF ~hasGetSoldQuantity(event) THEN Raise(st, "TypeError")
    ELSE LET stockBefore == st.machines[id]
             dec == setStockLevel(st, id, stockBefore - event.sold)
             done == SaleCommit(dec, id, stockBefore)
         IN  IF done.exc = "none" /\ done.machines[id] < STOCK_THRESHOLD
             THEN publish(LowStockWarningEvent(id), getInstanceIn(done),
                      depth + 1)
             ELSE done

\* The sale handler checking the threshold straight after the decrement,
\* before the level is validated.
MachineSaleSubscriber_handle_Early(event, st, depth) ==
    LET id == event.machineId IN
    IF ~findById(st.machines, id) THEN st
    ELSE IF ~hasGetSoldQuantity(event) THEN Raise(st, "TypeError")
    ELSE LET stockBefore == st.machines[id]
             dec == setStockLevel(st, id, stockBefore - event.sold)
             warned == SaleThreshold(dec, id, depth)
         IN  IF warned.exc # "none" THEN warned
             ELSE SaleCommit(warned, id, stockBefore)

\* The sale handler reporting the level either way: a LowStockWarning below
\* the threshold, and a StockOK at or above it.
MachineSaleSubscriber_handle_Both(event, st, depth) ==
    LET id == event.machineId IN
    IF ~findById(st.machines, id) THEN st
    ELSE IF ~hasGetSoldQuantity(event) THEN Raise(st, "TypeError")
    ELSE LET stockBefore == st.machines[id]
             dec == setStockLevel(st, id, stockBefore - event.sold)
             done == SaleCommit(dec, id, stockBefore)
         IN  IF done.exc # "none" THEN done
             ELSE IF done.machines[id] < STOCK_THRESHOLD
                  THEN publish(LowStockWarningEvent(id), getInstanceIn(done),
                               depth + 1)
                  ELSE publish(StockOKEvent(id), getInstanceIn(done),
                               depth + 1)

\* The sale handler committing the decrement without validating it.
MachineSaleSubscriber_handle_Unchecked(event, st, depth) ==
    LET id == event.machineId IN
    IF ~findById(st.machines, id) THEN st
    ELSE IF ~hasGetSoldQuantity(event) THEN Raise(st, "TypeError")
    ELSE LET stockBefore == st.machines[id]
             dec == setStockLevel(st, id, stockBefore - event.sold)
         IN  SaleThreshold(update(dec, id), id, depth)

MachineSaleSubscriber_handle(event, st, depth) ==
    LET id == event.machineId IN
    IF ~findById(st.machines, id) THEN st
    ELSE IF ~hasGetSoldQuantity(event) THEN Raise(st, "TypeError")
    ELSE LET stockBefore == st.machines[id]
             dec == setStockLevel(st, id, stockBefore - event.sold)
         IN  SaleThreshold(SaleCommit(dec, id, stockBefore), id, depth)

\* RefillThreshold testing the new level only.
RefillThreshold_Level(st, id, stockBefore, depth) ==
    IF st.exc # "none" THEN st
    ELSE IF st.machines[id] >= STOCK_THRESHOLD
         THEN publish(StockOKEvent(id), getInstanceIn(st),
                      depth + 1)
         ELSE st

\* RefillThreshold comparing the new level with > instead of >=.
RefillThreshold_Strict(st, id, stockBefore, depth) ==
    IF st.exc # "none" THEN st
    ELSE IF stockBefore < STOCK_THRESHOLD /\ st.machines[id] > STOCK_THRESHOLD
         THEN publish(StockOKEvent(id), getInstanceIn(st), depth + 1)
         ELSE st

\* The threshold check that ends MachineRefillSubscriber.handle.
RefillThreshold(st, id, stockBefore, depth) ==
    IF st.exc # "none" THEN st
    ELSE IF stockBefore < STOCK_THRESHOLD /\ st.machines[id] >= STOCK_THRESHOLD
         THEN publish(StockOKEvent(id), getInstanceIn(st),
                      depth + 1)
         ELSE st

\* The refill handler raising for a machine it does not find.
MachineRefillSubscriber_handle_Strict(event, st, depth) ==
    LET id == event.machineId IN
    IF ~findById(st.machines, id) THEN Raise(st, "Error")
    ELSE IF ~hasGetRefillQuantity(event) THEN Raise(st, "TypeError")
    ELSE LET stockBefore == st.machines[id]
             inc == update(setStockLevel(st, id, stockBefore + event.refill), id)
         IN  IF /\ inc.exc = "none"
                /\ stockBefore < STOCK_THRESHOLD
                /\ inc.machines[id] >= STOCK_THRESHOLD
             THEN publish(StockOKEvent(id), getInstanceIn(inc),
                      depth + 1)
             ELSE inc

\* The refill handler publishing StockOK from the level it has computed,
\* before it assigns and commits that level.
MachineRefillSubscriber_handle_Early(event, st, depth) ==
    LET id == event.machineId IN
    IF ~findById(st.machines, id) THEN st
    ELSE IF ~hasGetRefillQuantity(event) THEN Raise(st, "TypeError")
    ELSE LET stockBefore == st.machines[id]
             level == stockBefore + event.refill
             told == IF stockBefore < STOCK_THRESHOLD
                        /\ level >= STOCK_THRESHOLD
                     THEN publish(StockOKEvent(id), getInstanceIn(st),
                                  depth + 1)
                     ELSE st
         IN  IF told.exc # "none" THEN told
             ELSE update(setStockLevel(told, id, level), id)

\* The refill handler filling a machine up to the level of a new Machine and
\* no further.
MachineRefillSubscriber_handle_Capped(event, st, depth) ==
    LET id == event.machineId IN
    IF ~findById(st.machines, id) THEN st
    ELSE IF ~hasGetRefillQuantity(event) THEN Raise(st, "TypeError")
    ELSE LET stockBefore == st.machines[id]
             sum == stockBefore + event.refill
             inc == setStockLevel(st, id, IF sum > InitialStock
                                         THEN InitialStock ELSE sum)
         IN  RefillThreshold(update(inc, id), id, stockBefore, depth)

MachineRefillSubscriber_handle(event, st, depth) ==
    LET id == event.machineId IN
    IF ~findById(st.machines, id) THEN st
    ELSE IF ~hasGetRefillQuantity(event) THEN Raise(st, "TypeError")
    ELSE LET stockBefore == st.machines[id]
             inc == setStockLevel(st, id, stockBefore + event.refill)
         IN  RefillThreshold(update(inc, id), id, stockBefore, depth)

\* The warning handler looking the machine up first, and raising when the
\* repository does not hold it.
StockWarningSubscriber_handle_Lookup(event, st) ==
    IF ~findById(st.machines, event.machineId) THEN Raise(st, "Error")
    ELSE consoleLog(st, "Low stock warning for machine", event.machineId)

\* The warning handler restocking the machine it is warned about.
StockWarningSubscriber_handle_Restock(event, st) ==
    LET told == consoleLog(st, "Low stock warning for machine",
                           event.machineId)
    IN  IF findById(st.machines, event.machineId)
        THEN setStockLevel(told, event.machineId, InitialStock)
        ELSE told

StockWarningSubscriber_handle(event, st) ==
    consoleLog(st, "Low stock warning for machine", event.machineId)

StockOKSubscriber_handle(event, st) ==
    consoleLog(st, "Stock OK for machine", event.machineId)

\* handle with a warning subscriber that answers a warning by publishing a
\* StockOK event for the machine.
handle_Escalating(handler, event, st, depth) ==
    CASE handler = "saleSubscriber" ->
             MachineSaleSubscriber_handle(event, st, depth)
      [] handler = "refillSubscriber" ->
             MachineRefillSubscriber_handle(event, st, depth)
      [] handler = "stockWarningSubscriber" ->
             publish(StockOKEvent(event.machineId),
                     getInstanceIn(StockWarningSubscriber_handle(event, st)),
                     depth + 1)
      [] handler = "stockOKSubscriber" ->
             StockOKSubscriber_handle(event, st)

\* handler.handle(event), by the class of the handler.
handle(handler, event, st, depth) ==
    CASE handler = "saleSubscriber" ->
             MachineSaleSubscriber_handle(event, st, depth)
      [] handler = "refillSubscriber" ->
             MachineRefillSubscriber_handle(event, st, depth)
      [] handler = "stockWarningSubscriber" ->
             StockWarningSubscriber_handle(event, st)
      [] handler = "stockOKSubscriber" ->
             StockOKSubscriber_handle(event, st)

\* mapOrder visiting the list from its end.
mapOrder_Reversed(handlers) ==
    [i \in 1..Len(handlers) |-> Len(handlers) + 1 - i]

\* The order in which handlers.map visits the indices of the list.
mapOrder(handlers) == [i \in 1..Len(handlers) |-> i]

RECURSIVE mapHandlers_Isolated(_, _, _, _, _)

\* mapHandlers with each handler called inside its own try/catch: what a
\* handler raises is reported and the iteration goes on.
mapHandlers_Isolated(handlers, n, event, st, depth) ==
    IF n > Len(handlers) \/ st.exc # "none" THEN st
    ELSE LET handler == handlers[n]
             entered == Emit(st, [k |-> "handle", depth |-> depth,
                                  handler |-> handler, event |-> event,
                                  stock |-> st.machines])
             done == handle(handler, event, entered, depth)
             left == IF done.exc # "none"
                     THEN consoleError([done EXCEPT !.exc = "none"], done.exc)
                     ELSE Emit(done, [k |-> "handled", depth |-> depth,
                                      handler |-> handler, event |-> event,
                                      stock |-> done.machines])
         IN  mapHandlers_Isolated(handlers, n + 1, event, left, depth)

RECURSIVE mapHandlers(_, _, _, _, _)

\* handlers.map((handler) => handler.handle(event)) from the n-th visited
\* index on: an exception ends the iteration.
mapHandlers(handlers, n, event, st, depth) ==
    IF n > Len(mapOrder(handlers)) \/ st.exc # "none" THEN st
    ELSE LET handler == handlers[mapOrder(handlers)[n]]
             entered == Emit(st, [k |-> "handle", depth |-> depth,
                                  handler |-> handler, event |-> event,
                                  stock |-> st.machines])
             done == handle(handler, event, entered, depth)
             left == IF done.exc # "none" THEN done
                     ELSE Emit(done, [k |-> "handled", depth |-> depth,
                                      handler |-> handler, event |-> event,
                                      stock |-> done.machines])
         IN  mapHandlers(handlers, n + 1, event, left, depth)

RECURSIVE drain(_, _, _)

\* Delivery of the queued derived events q, from the n-th on.
drain(q, n, st) ==
    IF n > Len(q) \/ st.exc # "none" THEN st
    ELSE drain(q, n + 1,
               mapHandlers(getHandlers(subscribersOf(st.self), q[n].event.type), 1,
                           q[n].event, st, q[n].depth))

\* publish queueing the events published from inside a handler: the nested
\* call returns at once, and the queue is delivered when the handlers of the
\* program's own event have all returned.
publish_Queued(event, st, depth) ==
    LET handlers == getHandlers(subscribersOf(st.self), event.type)
        called == Emit(st, [k |-> "publish", depth |-> depth, event |-> event,
                            stock |-> st.machines, self |-> st.self])
        done == IF depth > 1 THEN called
                ELSE mapHandlers(handlers, 1, event, called, depth)
        queue == SelectSeq(done.out,
                           LAMBDA x : x.k = "publish" /\ x.depth > 1)
        drained == IF depth > 1 THEN done ELSE drain(queue, 1, done)
    IN  IF drained.exc # "none" THEN drained
        ELSE Emit(drained, [k |-> "return", depth |-> depth, event |-> event,
                            stock |-> drained.machines])

\* publish raising for an event type nobody is subscribed to.
publish_Strict(event, st, depth) ==
    LET handlers == getHandlers(subscribersOf(st.self), event.type)
        called == Emit(st, [k |-> "publish", depth |-> depth, event |-> event,
                            stock |-> st.machines, self |-> st.self])
        done == mapHandlers(handlers, 1, event, called, depth)
    IN  IF handlers = <<>> THEN Raise(called, "Error")
        ELSE IF done.exc # "none" THEN done
        ELSE Emit(done, [k |-> "return", depth |-> depth, event |-> event,
                         stock |-> done.machines])

\* PubSubService.publish.  The list is read once, when the call starts.
publish(event, st, depth) ==
    LET handlers == getHandlers(subscribersOf(st.self), event.type)
        called == Emit(st, [k |-> "publish", depth |-> depth, event |-> event,
                            stock |-> st.machines, self |-> st.self])
        done == mapHandlers(handlers, 1, event, called, depth)
    IN  IF done.exc # "none" THEN done
        ELSE Emit(done, [k |-> "return", depth |-> depth, event |-> event,
                         stock |-> done.machines])

----------------------------------------------------------------------------
\* The calls made on the service.

NoCall == [op |-> "none"]

NumSubs ==
    LET RECURSIVE Sum(_)
        Sum(S) == IF S = {} THEN 0
                  ELSE LET t == CHOOSE t \in S : TRUE
                       IN  Len(subscribers[t]) + Sum(S \ {t})
    IN  Sum(MachineEventType)

\* The main program before it asks for the service: no service object, and
\* a repository holding one new Machine per saved id.  `subscribers` is the
\* map of the object `service` refers to, empty while there is none.
Init ==
    /\ instance = NoInstance
    /\ service = NoInstance
    /\ subscribers = [t \in MachineEventType |-> <<>>]
    /\ machines = [id \in SavedIds |-> InitialStock]
    /\ last = NoCall
    /\ history = [gone |-> {}, back |-> {}]

\* subscribe leaving the list alone when it holds the handler already.
subscribe_Dedup(subs, type, handler) ==
    IF \E n \in 1..Len(subs[type]) : subs[type][n] = handler
    THEN subs
    ELSE [subs EXCEPT ![type] = Append(subs[type], handler)]

\* PubSubService.subscribe
subscribe(subs, type, handler) ==
    [subs EXCEPT ![type] = Append(getHandlers(subs, type), handler)]

\* filterOut removing the first occurrence only.
filterOut_First(handlers, handler) ==
    LET at == {n \in 1..Len(handlers) : handlers[n] = handler}
    IN  IF at = {} THEN handlers
        ELSE LET first == CHOOSE n \in at : \A m \in at : n <= m
             IN  SubSeq(handlers, 1, first - 1)
                     \o SubSeq(handlers, first + 1, Len(handlers))

\* filterOut written with indexOf and splice: every occurrence is removed,
\* and for a handler that does not occur splice(-1, 1) removes the last
\* element.
filterOut_Splice(handlers, handler) ==
    IF \E n \in 1..Len(handlers) : handlers[n] = handler
    THEN SelectSeq(handlers, LAMBDA h : h # handler)
    ELSE SubSeq(handlers, 1, Len(handlers) - 1)

\* handlers.filter((h) => h !== handler)
filterOut(handlers, handler) ==
    SelectSeq(handlers, LAMBDA h : h # handler)

\* unsubscribe filtering the list of every kind.
unsubscribe_AllKinds(subs, type, handler) ==
    [t \in DOMAIN subs |-> SelectSeq(subs[t], LAMBDA h : h # handler)]

\* PubSubService.unsubscribe
unsubscribe(subs, type, handler) ==
    [subs EXCEPT ![type] = filterOut(getHandlers(subs, type), handler)]

\* pubSubService = PubSubService.getInstance()
GetInstance ==
    /\ instance' = getInstance(instance)
    /\ service' = instance'
    /\ subscribers' = subscribersOf(service')
    /\ last' = [op |-> "getInstance", before |-> instance,
                returned |-> instance']
    /\ UNCHANGED machines

Subscribe(type, handler) ==
    /\ service # NoInstance
    /\ NumSubs < MaxSubs
    /\ subscribers' = subscribe(subscribers, type, handler)
    /\ last' = [op |-> "subscribe", type |-> type, handler |-> handler,
                before |-> getHandlers(subscribers, type)]
    /\ UNCHANGED <<machines, instance, service>>

Unsubscribe(type, handler) ==
    /\ service # NoInstance
    /\ subscribers' = unsubscribe(subscribers, type, handler)
    /\ last' = [op |-> "unsubscribe", type |-> type, handler |-> handler,
                before |-> subscribers]
    /\ UNCHANGED <<machines, instance, service>>

InRange(ms) == \A id \in DOMAIN ms : ms[id] \in (0 - MaxDebt)..MaxStock

\* A top-level publish(event) by the program.
Publish(event) ==
    LET done == publish(event,
                        [machines |-> machines, out |-> <<>>, exc |-> "none",
                         instance |-> instance, self |-> service],
                        1)
    IN  /\ service # NoInstance
        /\ InRange(done.machines)
        /\ machines' = done.machines
        /\ instance' = done.instance
        /\ last' = [op |-> "publish", event |-> event, before |-> machines,
                    out |-> done.out, exc |-> done.exc]
        /\ UNCHANGED <<subscribers, service>>

Next ==
    \/ GetInstance /\ UNCHANGED history
    \/ \E r \in Registrations : Subscribe(r[1], r[2]) /\ UNCHANGED history
    \/ \E r \in Registrations : Unsubscribe(r[1], r[2]) /\ UNCHANGED history
    \/ \E event \in Events : Publish(event) /\ UNCHANGED history

Spec == Init /\ [][Next]_vars

----------------------------------------------------------------------------
\* Reading the record of the last call.

IsPublish == last.op = "publish"

Out == last.out

Idx(k) == {i \in 1..Len(Out) : Out[i].k = k}

\* The publish calls of events of one type, the program's own call included.
PublishesOf(type) == {i \in Idx("publish") : Out[i].event.type = type}

\* The entries of handler.handle for one handler class and event type.
HandledBy(handler, type) ==
    {i \in Idx("handle") : Out[i].handler = handler /\ Out[i].event.type = type}

ErrorLines(text) == {i \in Idx("error") : Out[i].text = text}

Count(handler, handlers) ==
    Cardinality({n \in 1..Len(handlers) : handlers[n] = handler})

\* A published Sale / Refill addressed to a machine the repository holds.
SaleOnSaved ==
    /\ IsPublish
    /\ last.event.type = "SALE"
    /\ last.event.machineId \in DOMAIN last.before

RefillOnSaved ==
    /\ IsPublish
    /\ last.event.type = "REFILL"
    /\ last.event.machineId \in DOMAIN last.before

----------------------------------------------------------------------------
\* C1: for every machine and every sequence of published Sale and Refill
\* events, of any integer quantity, stockLevel >= 0 holds after each publish
\* call returns.
C1_StockNeverNegative ==
    (IsPublish /\ last.exc = "none")
        => \A id \in DOMAIN machines : machines[id] >= 0

C3_RejectedSaleNoWarning ==
    (SaleOnSaved /\ last.event.sold > last.before[last.event.machineId])
        => PublishesOf("LOW_STOCK") = {}

\* C4: with the sale subscriber registered exactly once on SALE, a Sale that
\* takes the stockLevel from X >= THRESHOLD to Y with 0 <= Y < THRESHOLD
\* publishes exactly one LowStockWarning, carrying that machine's id; a Sale
\* that leaves the stockLevel >= THRESHOLD publishes none.
C4_SaleCrossing ==
    (SaleOnSaved /\ subscribers["SALE"] = <<"saleSubscriber">>)
        => LET id == last.event.machineId
               X == last.before[id]
               Y == X - last.event.sold
           IN  /\ (X >= STOCK_THRESHOLD /\ 0 <= Y /\ Y < STOCK_THRESHOLD)
                     => /\ Cardinality(PublishesOf("LOW_STOCK")) = 1
                        /\ \A i \in PublishesOf("LOW_STOCK") :
                               Out[i].event = LowStockWarningEvent(id)
                        /\ machines[id] = Y
               /\ machines[id] >= STOCK_THRESHOLD
                     => PublishesOf("LOW_STOCK") = {}

C4_Witness ==
    /\ SaleOnSaved
    /\ subscribers["SALE"] = <<"saleSubscriber">>
    /\ last.before[last.event.machineId] >= STOCK_THRESHOLD
    /\ machines[last.event.machineId] < STOCK_THRESHOLD
    /\ machines[last.event.machineId] >= 0
    /\ Cardinality(PublishesOf("LOW_STOCK")) = 1

\* C5: the warning is level-triggered on the committed level: every
\* invocation of the sale handler that accepts the Sale (newLevel >= 0) and
\* commits a level below THRESHOLD publishes a LowStockWarning for that
\* machine before it returns, also when the level reaches exactly 0 and when
\* the stock was already below THRESHOLD before the sale.
C5_LevelTriggered ==
    SaleOnSaved
        => \A i \in HandledBy("saleSubscriber", "SALE") :
               LET id == last.event.machineId
                   newLevel == Out[i].stock[id] - last.event.sold
               IN  (0 <= newLevel /\ newLevel < STOCK_THRESHOLD)
                       => \E j \in PublishesOf("LOW_STOCK") :
                              /\ j > i
                              /\ Out[j].event = LowStockWarningEvent(id)
                              /\ Out[j].depth = Out[i].depth + 1
                              /\ Out[j].stock[id] = newLevel
                              /\ \A m \in (i + 1)..(j - 1) :
                                     Out[m].k \notin {"handle", "handled"}

C5_Witness ==
    /\ SaleOnSaved
    /\ HandledBy("saleSubscriber", "SALE") # {}
    /\ last.before[last.event.machineId] < STOCK_THRESHOLD
    /\ last.before[last.event.machineId] > 0
    /\ machines[last.event.machineId] = 0
    /\ PublishesOf("LOW_STOCK") # {}

\* C6: StockOK is edge-triggered: with the refill subscriber registered
\* exactly once on REFILL, a Refill for an existing machine publishes exactly
\* one StockOK, for that machine, if and only if stockBefore < THRESHOLD and
\* stockBefore + refillQuantity >= THRESHOLD, and none otherwise.
C6_EdgeTriggered ==
    (RefillOnSaved /\ subscribers["REFILL"] = <<"refillSubscriber">>)
        => LET id == last.event.machineId
               stockBefore == last.before[id]
               crosses == /\ stockBefore < STOCK_THRESHOLD
                          /\ stockBefore + last.event.refill >= STOCK_THRESHOLD
           IN  /\ Cardinality(PublishesOf("STOCK_OK")) = (IF crosses THEN 1 ELSE 0)
               /\ \A i \in PublishesOf("STOCK_OK") :
                      Out[i].event = StockOKEvent(id)

C6_Witness ==
    /\ RefillOnSaved
    /\ subscribers["REFILL"] = <<"refillSubscriber">>
    /\ last.before[last.event.machineId] < STOCK_THRESHOLD
    /\ machines[last.event.machineId] >= STOCK_THRESHOLD
    /\ Cardinality(PublishesOf("STOCK_OK")) = 1

\* A published Sale / Refill addressed to an id the repository does not hold,
\* which reached the handler of its kind.
RefillOnUnknown ==
    /\ IsPublish
    /\ last.event.type = "REFILL"
    /\ last.event.machineId \notin DOMAIN last.before
    /\ HandledBy("refillSubscriber", "REFILL") # {}

SaleOnUnknown ==
    /\ IsPublish
    /\ last.event.type = "SALE"
    /\ last.event.machineId \notin DOMAIN last.before
    /\ HandledBy("saleSubscriber", "SALE") # {}

\* The call did nothing but dispatch: no stockLevel and no repository entry
\* changed, nothing was written, logged or reported, no event was published
\* by a handler, and nothing was raised.
SilentNoOp ==
    /\ machines = last.before
    /\ last.exc = "none"
    /\ \A i \in 1..Len(Out) :
           /\ Out[i].k \in {"publish", "handle", "handled", "return"}
           /\ Out[i].depth = 1
           /\ Out[i].event = last.event

C8_SaleUnknownNoOp == SaleOnUnknown => SilentNoOp

C8_Witness ==
    /\ SaleOnUnknown
    /\ last.exc = "none"
    /\ Idx("return") # {}

\* The handlers entered, in order, by the publish call at entry i of the
\* output, up to its return at entry j.
HandlersEntered(i, j) ==
    LET entered == SelectSeq(SubSeq(Out, i, j),
                             LAMBDA x : /\ x.k = "handle"
                                        /\ x.depth = Out[i].depth)
    IN  [n \in 1..Len(entered) |-> entered[n].handler]

\* The return of the publish call at entry i.
ReturnOf(i) ==
    {j \in Idx("return") :
        /\ j > i
        /\ Out[j].depth = Out[i].depth
        /\ \A m \in Idx("return") : (m > i /\ m < j) => Out[m].depth # Out[i].depth}

\* C9: a publish(event) that returns has invoked handle(event) on exactly the
\* subscribers registered for event.type(), once per occurrence in that
\* kind's list and in list order; this holds of the program's call and of
\* every derived publish inside it.
C9_PublishInvokesList ==
    IsPublish
        => \A i \in Idx("publish") : \A j \in ReturnOf(i) :
               /\ HandlersEntered(i, j) = subscribers[Out[i].event.type]
               /\ \A m \in i..j :
                      (Out[m].k = "handle" /\ Out[m].depth = Out[i].depth)
                          => Out[m].event = Out[i].event

C9_Witness ==
    /\ IsPublish
    /\ last.exc = "none"
    /\ Len(subscribers[last.event.type]) = 2
    /\ subscribers[last.event.type][1] # subscribers[last.event.type][2]
    /\ \E t \in MachineEventType \ {last.event.type} :
           \E n \in 1..Len(subscribers[t]) :
               Count(subscribers[t][n], subscribers[last.event.type]) = 0
    /\ Cardinality(Idx("handled")) = 2

\* The level a sale handler leaves: the decrement, unless it is negative.
SaleResult(level, sold) == IF level - sold < 0 THEN level ELSE level - sold

\* C10: subscribe performs no deduplication: a subscribe call appends the
\* subscriber also when the list holds it already, a publish that returns has
\* invoked each subscriber once per occurrence in the list, and a sale
\* subscriber registered twice applies the sale transition twice for one
\* published Sale.
C10_NoDedup ==
    /\ last.op = "subscribe"
           => Count(last.handler, subscribers[last.type])
                  = Count(last.handler, last.before) + 1
    /\ (IsPublish /\ last.exc = "none")
           => \A h \in Subscribers :
                  Cardinality({i \in HandledBy(h, last.event.type) :
                                   Out[i].depth = 1})
                      = Count(h, subscribers[last.event.type])
    /\ (SaleOnSaved /\ last.exc = "none"
            /\ subscribers["SALE"] = <<"saleSubscriber", "saleSubscriber">>)
           => LET id == last.event.machineId
                  once == SaleResult(last.before[id], last.event.sold)
              IN  machines[id] = SaleResult(once, last.event.sold)

C10_Witness ==
    /\ SaleOnSaved
    /\ last.exc = "none"
    /\ subscribers["SALE"] = <<"saleSubscriber", "saleSubscriber">>
    /\ last.event.sold > 0
    /\ machines[last.event.machineId]
           = last.before[last.event.machineId] - 2 * last.event.sold
    /\ Cardinality(HandledBy("saleSubscriber", "SALE")) = 2

----------------------------------------------------------------------------
\* A list without the occurrences of one handler, the others in their order.
RECURSIVE Without(_, _)

Without(handlers, handler) ==
    IF handlers = <<>> THEN <<>>
    ELSE IF Head(handlers) = handler THEN Without(Tail(handlers), handler)
    ELSE <<Head(handlers)>> \o Without(Tail(handlers), handler)

IsUnsubscribe == last.op = "unsubscribe"

C13_UnsubscribeAbsent ==
    (IsUnsubscribe /\ Count(last.handler, last.before[last.type]) = 0)
        => \A t \in MachineEventType :
               getHandlers(subscribers, t) = getHandlers(last.before, t)

C13_Witness ==
    /\ IsUnsubscribe
    /\ Count(last.handler, last.before[last.type]) = 0
    /\ Len(last.before[last.type]) = 2
    /\ subscribers = last.before

\* C14: publish of an event whose kind has no registered subscriber does not
\* raise and changes nothing: no handler runs, no stockLevel changes, no
\* derived event is published, and the registry is left as it was.
C14_PublishNoSubscribers ==
    /\ [](
         (IsPublish /\ getHandlers(subscribers, last.event.type) = <<>>)
             => /\ last.exc = "none"
                /\ machines = last.before
                /\ Len(Out) = 2
                /\ Out[1].k = "publish" /\ Out[1].event = last.event
                /\ Out[2].k = "return" /\ Out[2].event = last.event
       )
    /\ [][last'.op = "publish" => subscribers' = subscribers]_vars

C14_Witness ==
    /\ IsPublish
    /\ getHandlers(subscribers, last.event.type) = <<>>
    /\ last.event.type = "REFILL"
    /\ last.event.machineId \in DOMAIN machines
    /\ last.event.refill > 0
    /\ \E t \in MachineEventType : subscribers[t] # <<>>
    /\ last.exc = "none"

----------------------------------------------------------------------------
\* The entries of calls: publish entered / returned, handle entered / returned.
CallEntries == {"publish", "handle", "handled", "return"}

\* The entries after entry i that belong to a call outside the publish call
\* entered at i: the handler that made the call, the rest of the outer list,
\* the return of the outer publish.
OuterAfter(i) ==
    {m \in (i + 1)..Len(Out) :
        Out[m].k \in CallEntries /\ Out[m].depth < Out[i].depth}

OuterBefore(i) ==
    {m \in 1..(i - 1) :
        Out[m].k \in CallEntries /\ Out[m].depth < Out[i].depth}

\* The publish calls made from inside a handler.
DerivedPublishes == {i \in Idx("publish") : Out[i].depth > 1}

\* The publish call entered at i ran to completion by entry j: it returned
\* there, having entered every subscriber of its kind, in order, and every
\* one of them having returned.
CompletedBy(i, j) ==
    /\ j \in ReturnOf(i)
    /\ HandlersEntered(i, j) = subscribers[Out[i].event.type]
    /\ Cardinality({m \in i..j : Out[m].k = "handled"
                                     /\ Out[m].depth = Out[i].depth})
           = Len(subscribers[Out[i].event.type])

\* C15: re-entrant dispatch is depth-first, not queued: a derived publish is
\* made by a sale or refill handler that has not returned yet, and every
\* subscriber of the derived kind has been invoked and has returned before
\* anything else happens outside the derived call: before the triggering
\* handler returns (the first thing to happen outside), before the next
\* subscriber of the primary kind is invoked, and before the outer publish
\* returns.
C15_DepthFirst ==
    IsPublish
        => \A i \in DerivedPublishes :
               /\ Out[i].event.type \in {"LOW_STOCK", "STOCK_OK"}
               /\ \E h \in OuterBefore(i) :
                      /\ \A m \in OuterBefore(i) : m <= h
                      /\ Out[h].k = "handle"
                      /\ Out[h].depth = Out[i].depth - 1
                      /\ Out[h].handler \in {"saleSubscriber", "refillSubscriber"}
                      /\ \A r \in OuterAfter(i) :
                             (\A m \in OuterAfter(i) : r <= m)
                                 => /\ Out[r].k = "handled"
                                    /\ Out[r].handler = Out[h].handler
                                    /\ Out[r].depth = Out[h].depth
               /\ \A m \in OuterAfter(i) :
                      \E j \in (i + 1)..(m - 1) : CompletedBy(i, j)

C15_Witness ==
    /\ IsPublish
    /\ last.exc = "none"
    /\ subscribers["SALE"] = <<"saleSubscriber", "saleSubscriber">>
    /\ subscribers["LOW_STOCK"] = <<"stockWarningSubscriber">>
    /\ Cardinality(DerivedPublishes) = 2
    /\ \E i \in DerivedPublishes :
           /\ \E m \in OuterAfter(i) : Out[m].k = "handle"
           /\ \E m \in OuterAfter(i) : Out[m].k = "return"
           /\ \E j \in ReturnOf(i) :
                  \E w \in (i + 1)..(j - 1) :
                      /\ Out[w].k = "handled"
                      /\ Out[w].handler = "stockWarningSubscriber"

----------------------------------------------------------------------------
WarningLogs == {i \in Idx("log") : Out[i].text = "Low stock warning for machine"}

\* A published Sale for a machine at stockLevel 5, the sale subscriber
\* registered on SALE and the LowStockWarning handler not registered.
SaleAtFive ==
    /\ SaleOnSaved
    /\ last.before[last.event.machineId] = 5
    /\ Count("saleSubscriber", subscribers["SALE"]) >= 1
    /\ Count("stockWarningSubscriber", subscribers["LOW_STOCK"]) = 0

\* C17 as stated: with the LowStockWarning handler unsubscribed (sale
\* subscriber still registered), Sale(8) for a machine whose stockLevel is 5
\* drops that machine's stock below THRESHOLD and emits no low-stock warning
\* log.
C17_Sale8DropsBelow ==
    (SaleAtFive /\ last.event.sold = 8)
        => /\ machines[last.event.machineId] < STOCK_THRESHOLD
           /\ WarningLogs = {}

\* C17 as amended: with the LowStockWarning handler unsubscribed (sale
\* subscriber still registered), Sale(8) for a machine whose stockLevel is 5
\* is rejected: the stock stays 5, the error is reported, no LowStockWarning
\* is published and no warning is logged.  A Sale the stock covers and that
\* leaves less than THRESHOLD (the Sale(4) of the test) does drop the stock
\* below THRESHOLD; it publishes the LowStockWarning, and no warning is
\* logged.
C17_Sale8Rejected ==
    /\ (SaleAtFive /\ last.event.sold = 8)
           => /\ machines[last.event.machineId] = 5
              /\ ErrorLines("Stock level cannot be negative") # {}
              /\ PublishesOf("LOW_STOCK") = {}
              /\ WarningLogs = {}
    /\ (SaleAtFive /\ last.event.sold <= 5
                   /\ 5 - last.event.sold < STOCK_THRESHOLD)
           => /\ machines[last.event.machineId] < STOCK_THRESHOLD
              /\ machines[last.event.machineId] >= 0
              /\ PublishesOf("LOW_STOCK") # {}
              /\ WarningLogs = {}

C17_Witness ==
    /\ SaleAtFive
    /\ last.event.sold = 8
    /\ subscribers["LOW_STOCK"] = <<>>
    /\ subscribers["STOCK_OK"] = <<"stockOKSubscriber">>
    /\ machines[last.event.machineId] = 5
    /\ Cardinality(ErrorLines("Stock level cannot be negative")) = 1
    /\ last.exc = "none"

----------------------------------------------------------------------------
\* The line each of the two reporting subscribers logs.
LineOf(handler) ==
    IF handler = "stockWarningSubscriber"
    THEN "Low stock warning for machine"
    ELSE "Stock OK for machine"

\* The invocations of the LowStockWarning and StockOK subscribers.
Reported ==
    {i \in Idx("handle") :
        Out[i].handler \in {"stockWarningSubscriber", "stockOKSubscriber"}}

\* C18: the LowStockWarning and StockOK subscribers never change state and
\* never raise: every invocation, for a LOW_STOCK or STOCK_OK event of any
\* machine id, is followed at once by exactly one log line naming the event's
\* machine id and then by the handler's return, with every stockLevel and the
\* repository's contents as they were on entry; nothing is published in
\* between, and the publish step leaves the registry unchanged.
C18_ReportOnly ==
    /\ [](
         IsPublish
             => \A i \in Reported :
                    /\ Out[i].event.type \in {"LOW_STOCK", "STOCK_OK"}
                    /\ i + 2 <= Len(Out)
                    /\ Out[i + 1] = [k |-> "log",
                                     text |-> LineOf(Out[i].handler),
                                     id |-> Out[i].event.machineId]
                    /\ Out[i + 2] = [k |-> "handled",
                                     depth |-> Out[i].depth,
                                     handler |-> Out[i].handler,
                                     event |-> Out[i].event,
                                     stock |-> Out[i].stock]
       )
    /\ [][(last'.op = "publish"
             /\ \E i \in 1..Len(last'.out) :
                    /\ last'.out[i].k = "handle"
                    /\ last'.out[i].handler
                           \in {"stockWarningSubscriber", "stockOKSubscriber"})
              => subscribers' = subscribers]_vars

C18_Witness ==
    /\ IsPublish
    /\ last.exc = "none"
    /\ \E i \in Reported :
           /\ Out[i].handler = "stockWarningSubscriber"
           /\ Out[i].event.machineId \notin DOMAIN machines
           /\ Out[i + 1].k = "log"
    /\ Cardinality(Reported) = 2

----------------------------------------------------------------------------
\* The getInstance calls made by the handlers during the last publish.
GetInstanceCalls == Idx("getInstance")

\* C16: at most one PubSubService instance ever exists: the first getInstance
\* call creates it, every getInstance call (the program's and those inside
\* the sale and refill handlers) returns that same instance and never
\* replaces it, and so every publish call, the derived ones included, is
\* made on the object the program subscribed through and invokes the
\* subscribers registered there.
C16_Singleton ==
    /\ [](
         /\ instance \in {NoInstance, NoInstance + 1}
         /\ service # NoInstance => service = instance
         /\ last.op = "getInstance"
                => /\ last.returned = instance
                   /\ last.returned # NoInstance
                   /\ last.before # NoInstance => last.returned = last.before
         /\ IsPublish
                => /\ \A i \in GetInstanceCalls : Out[i].returned = service
                   /\ \A i \in Idx("publish") :
                          /\ Out[i].self = service
                          /\ \A j \in ReturnOf(i) :
                                 HandlersEntered(i, j)
                                     = subscribers[Out[i].event.type]
       )
    /\ [][instance # NoInstance => instance' = instance]_vars

C16_Witness ==
    /\ IsPublish
    /\ last.exc = "none"
    /\ service = NoInstance + 1
    /\ \E g \in GetInstanceCalls :
           /\ Out[g].returned = service
           /\ Out[g + 1].k = "publish"
           /\ Out[g + 1].self = service
           /\ Out[g + 1].event.type = "STOCK_OK"
           /\ Out[g + 2].k = "handle"
           /\ Out[g + 2].handler = "stockOKSubscriber"

----------------------------------------------------------------------------
\* The program publishing Sale and Refill events of non-negative quantity
\* only.
NonNegativeEvents ==
    {e \in Events : \/ e.type = "SALE" /\ e.sold >= 0
                    \/ e.type = "REFILL" /\ e.refill >= 0}

NextNonNegative ==
    \/ GetInstance /\ UNCHANGED history
    \/ \E r \in Registrations : Subscribe(r[1], r[2]) /\ UNCHANGED history
    \/ \E r \in Registrations : Unsubscribe(r[1], r[2]) /\ UNCHANGED history
    \/ \E event \in NonNegativeEvents : Publish(event) /\ UNCHANGED history

SpecNonNegative == Init /\ [][NextNonNegative]_vars

NonNegative(stock) == \A id \in DOMAIN stock : stock[id] >= 0

\* The negative levels written by a sale handler.
NegativeWrites == {w \in Idx("write") : Out[w].level < 0}

\* C20: with Sale and Refill events of non-negative quantity only and
\* machines starting at stockLevel >= 0, every stockLevel is >= 0 wherever a
\* subscriber's handle is entered or returns and wherever a publish call is
\* entered or returns; a negative level written by the sale handler is
\* followed by the error report, the rollback line and the write of the
\* level before the sale, with no call in between, so no handler observes it.
C20_NegativeNeverObserved ==
    /\ NonNegative(machines)
    /\ IsPublish
           => /\ \A i \in 1..Len(Out) :
                     Out[i].k \in CallEntries => NonNegative(Out[i].stock)
              /\ \A w \in NegativeWrites :
                     /\ w + 3 <= Len(Out)
                     /\ Out[w + 1].k = "error"
                     /\ Out[w + 2].k = "log"
                     /\ Out[w + 3].k = "write"
                     /\ Out[w + 3].id = Out[w].id
                     /\ Out[w + 3].level >= 0

C20_Witness ==
    /\ IsPublish
    /\ last.exc = "none"
    /\ \E w \in NegativeWrites :
           \E i \in HandledBy("stockWarningSubscriber", "LOW_STOCK") :
               /\ i > w
               /\ Out[i].stock[Out[w].id] = last.before[Out[w].id]
               /\ Out[i].stock[Out[w].id] > 0

----------------------------------------------------------------------------
\* The repository called directly: save, update and delete of Machine
\* objects.  A Machine is its id and its stockLevel.

\* The ids the main program saves, and the levels of the Machine objects
\* passed in: a new Machine's, and levels assigned to machine.stockLevel.
RepositoryIds == {"001", "002", "003"}

RepositoryLevels == {0, 2, InitialStock}

\* save storing the machine whether or not the id is present.
save_Overwrite(st, id, level) ==
    [st EXCEPT !.machines =
        [i \in DOMAIN @ \cup {id} |-> IF i = id THEN level ELSE @[i]]]

\* MachineRepository.save
save(st, id, level) ==
    IF id \in DOMAIN st.machines THEN Raise(st, "Error")
    ELSE [st EXCEPT !.machines =
             [i \in DOMAIN @ \cup {id} |-> IF i = id THEN level ELSE @[i]]]

\* MachineRepository.update, for any Machine object with that id.
updateMachine(st, id, level) ==
    IF id \notin DOMAIN st.machines THEN Raise(st, "Error")
    ELSE [st EXCEPT !.machines[id] = level]

\* MachineRepository.delete
delete(st, id) ==
    IF id \notin DOMAIN st.machines THEN Raise(st, "Error")
    ELSE [st EXCEPT !.machines = [i \in DOMAIN @ \ {id} |-> @[i]]]

RepositoryCall(op, id, level, done) ==
    /\ machines' = done.machines
    /\ last' = [op |-> op, id |-> id, level |-> level, before |-> machines,
                exc |-> done.exc]
    /\ UNCHANGED <<subscribers, instance, service, history>>

Save(id, level) ==
    RepositoryCall("save", id, level,
                   save([machines |-> machines, exc |-> "none"], id, level))

Update(id, level) ==
    RepositoryCall("update", id, level,
                   updateMachine([machines |-> machines, exc |-> "none"],
                                 id, level))

Delete(id) ==
    RepositoryCall("delete", id, 0,
                   delete([machines |-> machines, exc |-> "none"], id))

NextRepository ==
    \/ \E id \in RepositoryIds, level \in RepositoryLevels : Save(id, level)
    \/ \E id \in RepositoryIds, level \in RepositoryLevels : Update(id, level)
    \/ \E id \in RepositoryIds : Delete(id)

SpecRepository == Init /\ [][NextRepository]_vars

\* The last repository call was made with an id the repository held / did
\* not hold.
Present == last.id \in DOMAIN last.before

\* C19: save(machine) fails when the id is already present, update(machine)
\* and delete(id) fail when the id is not present; a failing call raises to
\* its caller and leaves the id-to-machine mapping exactly as it was.  In
\* the other cases the call does not fail: save and update store the
\* machine under its id and delete removes the id, the rest of the mapping
\* unchanged.
C19_RepositoryErrors ==
    LET failing == \/ last.op = "save" /\ Present
                   \/ last.op \in {"update", "delete"} /\ ~Present
        others == DOMAIN last.before \ {last.id}
    IN  last.op \in {"save", "update", "delete"}
            => /\ failing => last.exc = "Error" /\ machines = last.before
               /\ ~failing
                     => /\ last.exc = "none"
                        /\ \A i \in others :
                               i \in DOMAIN machines
                                   /\ machines[i] = last.before[i]
                        /\ IF last.op = "delete"
                           THEN DOMAIN machines = others
                           ELSE /\ DOMAIN machines = others \cup {last.id}
                                /\ machines[last.id] = last.level

C19_Witness ==
    /\ last.op = "save"
    /\ Present
    /\ last.level # last.before[last.id]
    /\ Cardinality(DOMAIN last.before) = 2
    /\ last.exc = "Error"
    /\ machines = last.before

----------------------------------------------------------------------------
\* The program's calls with a record of the unsubscribe calls kept beside
\* them: history.gone holds the registrations <<kind, s>> unsubscribed and
\* not subscribed since, history.back those subscribed again after an
\* unsubscribe (and not unsubscribed since).
Track(h, call) ==
    LET r == <<call.type, call.handler>> IN
    IF call.op = "unsubscribe"
    THEN [gone |-> h.gone \cup {r}, back |-> h.back \ {r}]
    ELSE [gone |-> h.gone \ {r},
          back |-> IF r \in h.gone THEN h.back \cup {r} ELSE h.back]

\* The registrations and events of the subscribe/unsubscribe tests: the
\* four subscribers on their own kinds, and Sale(8), Sale(2) and Refill(3)
\* for a saved machine.
DeliveryRegistrations ==
    {<<"SALE", "saleSubscriber">>,
     <<"REFILL", "refillSubscriber">>,
     <<"LOW_STOCK", "stockWarningSubscriber">>,
     <<"STOCK_OK", "stockOKSubscriber">>}

DeliveryEvents ==
    {MachineSaleEvent(q, id) : q \in {2, 8}, id \in SavedIds}
    \cup {MachineRefillEvent(q, id) : q \in {3}, id \in SavedIds}

NextDelivery ==
    \/ GetInstance /\ UNCHANGED history
    \/ \E r \in DeliveryRegistrations :
           Subscribe(r[1], r[2]) /\ history' = Track(history, last')
    \/ \E r \in DeliveryRegistrations :
           Unsubscribe(r[1], r[2]) /\ history' = Track(history, last')
    \/ \E event \in DeliveryEvents : Publish(event) /\ UNCHANGED history

SpecDelivery == Init /\ [][NextDelivery]_vars

\* The invocations of handler s for an event of one kind during the last
\* publish, by the program's call or by a derived one.
Deliveries(r) == HandledBy(r[2], r[1])

\* C12: after unsubscribe(kind, s) has returned and until s is subscribed to
\* kind again, s is not in the list of kind and no publish of that kind, the
\* program's or a derived one, invokes s; so with the sale subscriber and the
\* refill subscriber unsubscribed, a published Sale or Refill leaves every
\* stockLevel unchanged.  Once subscribe(kind, s) has been called again,
\* every publish of that kind that returns has invoked s.
C12_UnsubscribeStopsDelivery ==
    /\ \A r \in history.gone : Count(r[2], subscribers[r[1]]) = 0
    /\ \A r \in history.back : Count(r[2], subscribers[r[1]]) >= 1
    /\ IsPublish
           => /\ \A r \in history.gone : Deliveries(r) = {}
              /\ ({<<"SALE", "saleSubscriber">>,
                    <<"REFILL", "refillSubscriber">>} \subseteq history.gone
                      /\ last.event.type \in {"SALE", "REFILL"})
                     => machines = last.before
              /\ \A r \in history.back :
                     \A i \in PublishesOf(r[1]) : \A j \in ReturnOf(i) :
                         \E m \in Deliveries(r) :
                             i < m /\ m < j /\ Out[m].depth = Out[i].depth

C12_Witness ==
    /\ IsPublish
    /\ last.exc = "none"
    /\ last.event.type = "SALE"
    /\ <<"SALE", "saleSubscriber">> \in history.back
    /\ <<"LOW_STOCK", "stockWarningSubscriber">> \in history.gone
    /\ Deliveries(<<"SALE", "saleSubscriber">>) # {}
    /\ PublishesOf("LOW_STOCK") # {}
    /\ machines # last.before

----------------------------------------------------------------------------
\* The return of the handler entered at entry i: the first "handled" entry of
\* its depth after i (none when the handler raised).
HandledOf(i) ==
    {j \in Idx("handled") :
        /\ j > i
        /\ Out[j].depth = Out[i].depth
        /\ \A m \in Idx("handled") :
               (m > i /\ m < j) => Out[m].depth # Out[i].depth}

\* C21: refill handling never rejects or rolls back: every invocation of the
\* refill handler for an existing machine returns, with that machine's
\* stockLevel equal to the level on entry plus the refill quantity, whatever
\* the result (above the level of a new machine, or negative); it writes the
\* level once and reports no error and no rollback.
C21_RefillUnconditional ==
    IsPublish
        => \A i \in HandledBy("refillSubscriber", "REFILL") :
               LET id == Out[i].event.machineId IN
               id \in DOMAIN Out[i].stock
                   => /\ HandledOf(i) # {}
                      /\ \A j \in HandledOf(i) :
                             /\ Out[j].stock[id]
                                    = Out[i].stock[id] + Out[i].event.refill
                             /\ Cardinality({w \in Idx("write") :
                                                 i < w /\ w < j}) = 1
                             /\ \A m \in (i + 1)..(j - 1) :
                                    /\ Out[m].k # "error"
                                    /\ Out[m].k = "log"
                                           => Out[m].text = "Stock OK for machine"

C21_Witness ==
    /\ RefillOnSaved
    /\ last.exc = "none"
    /\ subscribers["REFILL"] = <<"refillSubscriber">>
    /\ last.before[last.event.machineId] = InitialStock
    /\ last.event.refill > 0
    /\ machines[last.event.machineId] = InitialStock + last.event.refill

----------------------------------------------------------------------------
\* The program of the "Multiple Events" test: two saved machines, each
\* subscriber registered at most once on its own kind, and Sale and Refill
\* events published once the sale and the refill subscriber are registered.
\* history.net keeps, per machine, the refill quantities addressed to it
\* minus the sold quantities of the sales addressed to it that its stock
\* covered when they were published; history.recent keeps, per machine, the
\* kind of the derived event published for it last ("none" before the
\* first).
LedgerIds == {"001", "002"}

LedgerEvents ==
    {MachineSaleEvent(q, id) : q \in Quantities, id \in LedgerIds}
    \cup {MachineRefillEvent(q, id) : q \in Quantities, id \in LedgerIds}
    \cup {MachineSaleEvent(q, id) : q \in UnknownQuantities, id \in UnknownIds}
    \cup {MachineRefillEvent(q, id) : q \in UnknownQuantities, id \in UnknownIds}

LedgerRegistrations ==
    {<<"SALE", "saleSubscriber">>,
     <<"REFILL", "refillSubscriber">>,
     <<"LOW_STOCK", "stockWarningSubscriber">>,
     <<"STOCK_OK", "stockOKSubscriber">>}

InitLedger ==
    /\ instance = NoInstance
    /\ service = NoInstance
    /\ subscribers = [t \in MachineEventType |-> <<>>]
    /\ machines = [id \in LedgerIds |-> InitialStock]
    /\ last = NoCall
    /\ history = [gone |-> {}, back |-> {},
                  net |-> [id \in LedgerIds |-> 0],
                  recent |-> [id \in LedgerIds |-> "none"]]

Entered(net, event, stock) ==
    LET id == event.machineId IN
    IF id \notin DOMAIN stock THEN net
    ELSE IF event.type = "REFILL"
         THEN [net EXCEPT ![id] = @ + event.refill]
         ELSE IF event.sold <= stock[id]
              THEN [net EXCEPT ![id] = @ - event.sold]
              ELSE net

NextLedger ==
    \/ GetInstance /\ UNCHANGED history
    \/ \E r \in LedgerRegistrations :
           /\ Count(r[2], subscribers[r[1]]) = 0
           /\ Subscribe(r[1], r[2])
           /\ UNCHANGED history
    \/ \E event \in LedgerEvents :
           /\ subscribers["SALE"] = <<"saleSubscriber">>
           /\ subscribers["REFILL"] = <<"refillSubscriber">>
           /\ Publish(event)
           /\ history' = [history EXCEPT
                              !.net = Entered(@, event, machines)]

SpecLedger == InitLedger /\ [][NextLedger]_vars

\* C22: with one sale subscriber on SALE and one refill subscriber on REFILL,
\* after any sequence of published Sale/Refill events each machine's
\* stockLevel is its initial level (10) plus the refill quantities addressed
\* to it minus the sold quantities of the accepted sales addressed to it (a
\* sale is accepted when its quantity does not exceed the stock at the time).
C22_StockIsLedger ==
    \A id \in DOMAIN machines :
        machines[id] = InitialStock + history.net[id]

C22_Witness ==
    /\ SaleOnSaved
    /\ last.exc = "none"
    /\ ErrorLines("Stock level cannot be negative") # {}
    /\ \A id \in LedgerIds :
           history.net[id] < 0 /\ machines[id] = InitialStock + history.net[id]
    /\ machines["001"] # machines["002"]

----------------------------------------------------------------------------
\* C23: handling a Sale or Refill addressed to machine m changes at most m's
\* stockLevel: every write is to m, every other machine's stockLevel and the
\* set of ids in the repository are as before the publish, every derived
\* event carries the id m, and the step leaves the registry unchanged.
C23_OnlyAddressedMachine ==
    /\ [](
         (IsPublish /\ last.event.type \in {"SALE", "REFILL"})
             => LET m == last.event.machineId IN
                /\ DOMAIN machines = DOMAIN last.before
                /\ \A id \in DOMAIN machines \ {m} :
                       machines[id] = last.before[id]
                /\ \A w \in Idx("write") : Out[w].id = m
                /\ \A i \in DerivedPublishes : Out[i].event.machineId = m
                /\ \A i \in 1..Len(Out) :
                       Out[i].k \in CallEntries
                           => /\ DOMAIN Out[i].stock = DOMAIN last.before
                              /\ \A id \in DOMAIN last.before \ {m} :
                                     Out[i].stock[id] = last.before[id]
       )
    /\ [][(last'.op = "publish" /\ last'.event.type \in {"SALE", "REFILL"})
              => subscribers' = subscribers]_vars

C23_Witness ==
    /\ SaleOnSaved
    /\ last.exc = "none"
    /\ last.event.machineId = "002"
    /\ machines["002"] # last.before["002"]
    /\ machines["001"] = last.before["001"]
    /\ machines["001"] # InitialStock
    /\ \E i \in DerivedPublishes :
           /\ Out[i].event = LowStockWarningEvent("002")
           /\ \E j \in HandledBy("stockWarningSubscriber", "LOW_STOCK") : j > i

----------------------------------------------------------------------------
\* The handler invocations that did not return: the handler raised, or a
\* publish call it made did.
Raised == {i \in Idx("handle") : HandledOf(i) = {}}

\* The publish call that invoked the handler entered at entry i.
PublishOf(i) ==
    CHOOSE p \in Idx("publish") :
        /\ p < i
        /\ Out[p].depth = Out[i].depth
        /\ \A q \in Idx("publish") :
               (q < i /\ Out[q].depth = Out[i].depth) => q <= p

\* C24: there is no isolation between subscribers: when a subscriber's handle
\* raises during publish, nothing is called after it (the subscribers after
\* it in the list are not invoked, and no publish call, the derived one and
\* the program's, returns normally), the handlers invoked by that publish are
\* the list up to the one that raised, the handler that published the
\* derived event does not return either, and the exception reaches the
\* caller of publish.  A publish in which no handler raises returns normally.
C24_NoIsolation ==
    IsPublish
        => /\ (Raised = {}) <=> (last.exc = "none")
           /\ last.exc = "none" => Out[Len(Out)].k = "return"
           /\ \A i \in Raised :
                  LET p == PublishOf(i)
                      handlers == subscribers[Out[p].event.type]
                      entered == HandlersEntered(p, Len(Out))
                  IN  /\ ReturnOf(p) = {}
                      /\ Len(entered) <= Len(handlers)
                      /\ entered = SubSeq(handlers, 1, Len(entered))
                      /\ \A m \in (i + 1)..Len(Out) :
                             (Out[m].k \in CallEntries
                                 /\ Out[m].depth <= Out[i].depth)
                                 => Out[m].k = "publish"
                      /\ Out[i].depth > 1
                             => \E o \in Raised :
                                    /\ o < i
                                    /\ Out[o].depth = Out[i].depth - 1

C24_Witness ==
    /\ IsPublish
    /\ last.event.type = "SALE"
    /\ last.exc = "TypeError"
    /\ subscribers["LOW_STOCK"] = <<"saleSubscriber", "stockWarningSubscriber">>
    /\ Cardinality(Raised) = 2
    /\ HandledBy("stockWarningSubscriber", "LOW_STOCK") = {}
    /\ Idx("return") = {}

----------------------------------------------------------------------------
\* Subscribers that change the registry while they handle an event.  The
\* repository has none, but ISubscriber admits them: one that subscribes the
\* stock-OK subscriber to the kind of the event it handles, and one that
\* unsubscribes the warning subscriber from it.  What they meet is decided by
\* the arrays the service keeps: subscribe pushes onto the array the map
\* holds, unsubscribe puts a filtered copy in the map, and handlers.map
\* walks the array publish read, up to the length it had when map began.

ReentrantSubscribers == {"subscribingSubscriber", "unsubscribingSubscriber"}

ReentrantKinds == {"LOW_STOCK", "STOCK_OK"}

ReentrantRegistrations ==
    {<<t, h>> : t \in ReentrantKinds,
                h \in ReentrantSubscribers
                         \cup {"stockWarningSubscriber", "stockOKSubscriber"}}

ReentrantEvents ==
    {LowStockWarningEvent(id) : id \in SavedIds}
    \cup {StockOKEvent(id) : id \in SavedIds}

\* The arrays in the map when a call by the program starts: one per kind,
\* numbered in the order of the enum.
KindIndex(type) ==
    CASE type = "SALE" -> 1
      [] type = "REFILL" -> 2
      [] type = "LOW_STOCK" -> 3
      [] type = "STOCK_OK" -> 4

ArraysOf(subs) ==
    [heap |-> <<subs["SALE"], subs["REFILL"],
                subs["LOW_STOCK"], subs["STOCK_OK"]>>,
     map |-> [t \in MachineEventType |-> KindIndex(t)],
     out |-> <<>>]

\* handlers.push(handler); this.subscribers.set(type, handlers)
subscribeArray(st, type, handler) ==
    [st EXCEPT !.heap[st.map[type]] = Append(@, handler)]

\* newHandlers = handlers.filter(...); this.subscribers.set(type, newHandlers)
unsubscribeArray(st, type, handler) ==
    [st EXCEPT !.heap = Append(@, filterOut(st.heap[st.map[type]], handler)),
               !.map[type] = Len(st.heap) + 1]

handleArray(handler, event, st) ==
    CASE handler = "subscribingSubscriber" ->
             subscribeArray(st, event.type, "stockOKSubscriber")
      [] handler = "unsubscribingSubscriber" ->
             unsubscribeArray(st, event.type, "stockWarningSubscriber")
      [] handler = "stockWarningSubscriber" ->
             StockWarningSubscriber_handle(event, st)
      [] handler = "stockOKSubscriber" ->
             StockOKSubscriber_handle(event, st)

RECURSIVE mapArray_Live(_, _, _, _, _)

\* mapArray written as a loop that tests k against handlers.length each
\* time round.
mapArray_Live(st, a, len, k, event) ==
    IF k > Len(st.heap[a]) THEN st
    ELSE LET handler == st.heap[a][k]
             entered == Emit(st, [k |-> "handle", depth |-> 1,
                                  handler |-> handler, event |-> event])
             left == Emit(handleArray(handler, event, entered),
                          [k |-> "handled", depth |-> 1,
                           handler |-> handler, event |-> event])
         IN  mapArray_Live(left, a, len, k + 1, event)

RECURSIVE mapArray(_, _, _, _, _)

\* Array.prototype.map on array a from index k: len is the length read
\* before the first callback, and an index the array has no element at is
\* skipped.
mapArray(st, a, len, k, event) ==
    IF k > len THEN st
    ELSE IF k > Len(st.heap[a]) THEN mapArray(st, a, len, k + 1, event)
    ELSE LET handler == st.heap[a][k]
             entered == Emit(st, [k |-> "handle", depth |-> 1,
                                  handler |-> handler, event |-> event])
             left == Emit(handleArray(handler, event, entered),
                          [k |-> "handled", depth |-> 1,
                           handler |-> handler, event |-> event])
         IN  mapArray(left, a, len, k + 1, event)

\* PubSubService.publish over the arrays.
publishArray(event, st) ==
    LET a == st.map[event.type]
        called == Emit(st, [k |-> "publish", depth |-> 1, event |-> event])
        done == mapArray(called, a, Len(st.heap[a]), 1, event)
    IN  Emit(done, [k |-> "return", depth |-> 1, event |-> event])

PublishReentrant(event) ==
    LET done == publishArray(event, ArraysOf(subscribers))
        after == [t \in MachineEventType |-> done.heap[done.map[t]]]
    IN  /\ service # NoInstance
        /\ NumSubs + Len(after[event.type]) - Len(subscribers[event.type])
               <= MaxSubs
        /\ subscribers' = after
        /\ last' = [op |-> "publish", event |-> event, before |-> machines,
                    registered |-> subscribers, out |-> done.out,
                    exc |-> "none"]
        /\ UNCHANGED <<machines, instance, service, history>>

NextReentrant ==
    \/ GetInstance /\ UNCHANGED history
    \/ \E r \in ReentrantRegistrations :
           Subscribe(r[1], r[2]) /\ UNCHANGED history
    \/ \E r \in ReentrantRegistrations :
           Unsubscribe(r[1], r[2]) /\ UNCHANGED history
    \/ \E event \in ReentrantEvents : PublishReentrant(event)

SpecReentrant == Init /\ [][NextReentrant]_vars

\* The list of a kind after the handlers of a snapshot have run in order,
\* each subscribing or unsubscribing as it is written to.
RECURSIVE RegistryAfter(_, _)

RegistryAfter(snapshot, list) ==
    IF snapshot = <<>> THEN list
    ELSE RegistryAfter(
             Tail(snapshot),
             CASE Head(snapshot) = "subscribingSubscriber" ->
                      Append(list, "stockOKSubscriber")
               [] Head(snapshot) = "unsubscribingSubscriber" ->
                      Without(list, "stockWarningSubscriber")
               [] OTHER -> list)

\* C25: dispatch uses a snapshot of the subscriber list taken when publish
\* starts: when handlers subscribe or unsubscribe for the kind being
\* dispatched, the dispatch in progress still invokes exactly the
\* subscribers registered when it began, in order (one added during the
\* dispatch is not invoked, one removed during it still is), each returning
\* before the next is invoked; the changes are in the registry when publish
\* returns, where the next publish call reads them, and the lists of the
\* other kinds are untouched.
C25_SnapshotDispatch ==
    (IsPublish /\ last.event.type \in ReentrantKinds)
        => LET type == last.event.type
               snapshot == last.registered[type]
           IN  /\ HandlersEntered(1, Len(Out)) = snapshot
               /\ \A i \in Idx("handle") :
                      /\ Out[i + 1].k \in {"handled", "log"}
                      /\ HandledOf(i) # {}
               /\ Out[Len(Out)].k = "return"
               /\ subscribers[type] = RegistryAfter(snapshot, snapshot)
               /\ \A t \in MachineEventType \ {type} :
                      subscribers[t] = last.registered[t]

C25_Witness ==
    /\ IsPublish
    /\ last.event.type = "LOW_STOCK"
    /\ last.registered["LOW_STOCK"]
           = <<"unsubscribingSubscriber", "subscribingSubscriber",
               "stockWarningSubscriber">>
    /\ HandledBy("stockWarningSubscriber", "LOW_STOCK") # {}
    /\ HandledBy("stockOKSubscriber", "LOW_STOCK") = {}
    /\ subscribers["LOW_STOCK"]
           = <<"unsubscribingSubscriber", "subscribingSubscriber",
               "stockOKSubscriber">>

----------------------------------------------------------------------------
\* The subscriber class written for each kind.
OwnSubscriber(type) ==
    CASE type = "SALE" -> "saleSubscriber"
      [] type = "REFILL" -> "refillSubscriber"
      [] type = "LOW_STOCK" -> "stockWarningSubscriber"
      [] type = "STOCK_OK" -> "stockOKSubscriber"

\* Every registration is of a subscriber on its own kind.
OwnKindsOnly ==
    \A t \in MachineEventType :
        \A n \in 1..Len(subscribers[t]) : subscribers[t][n] = OwnSubscriber(t)

\* C26: with the four subscribers registered on their own kinds, any number
\* of times each, every publish call terminates, returning normally, and
\* publish calls nest at most 2 deep: a derived event is published by a sale
\* or refill handler at depth 1, and its handlers publish nothing.
C26_DepthAtMostTwo ==
    (IsPublish /\ OwnKindsOnly)
        => /\ last.exc = "none"
           /\ Out[Len(Out)].k = "return"
           /\ Out[Len(Out)].depth = 1
           /\ \A i \in Idx("publish") :
                  /\ Out[i].depth <= 2
                  /\ ReturnOf(i) # {}
                  /\ Out[i].depth = 2
                         => /\ Out[i].event.type \in {"LOW_STOCK", "STOCK_OK"}
                            /\ last.event.type \in {"SALE", "REFILL"}
           /\ \A i \in Idx("handle") :
                  /\ HandledOf(i) # {}
                  /\ Out[i].event.type \in {"LOW_STOCK", "STOCK_OK"}
                         => \A j \in HandledOf(i) :
                                \A m \in i..j : Out[m].k # "publish"

C26_Witness ==
    /\ RefillOnSaved
    /\ OwnKindsOnly
    /\ subscribers["REFILL"] = <<"refillSubscriber">>
    /\ subscribers["STOCK_OK"] = <<"stockOKSubscriber", "stockOKSubscriber">>
    /\ Cardinality({i \in Idx("handle") : Out[i].depth = 2}) = 2
    /\ Out[Len(Out)].k = "return"

----------------------------------------------------------------------------
\* The handler invocation whose publish call invoked the handler entered at
\* entry i (of depth 2 or more).
TriggerOf(i) ==
    CHOOSE h \in Idx("handle") :
        /\ h < i
        /\ Out[h].depth = Out[i].depth - 1
        /\ \A o \in Idx("handle") :
               (o < i /\ Out[o].depth = Out[i].depth - 1) => o <= h

\* The handlers invoked for a derived event.
DerivedHandles == {i \in Idx("handle") : Out[i].depth > 1}

\* C27: a derived event is published only after the stock change is
\* committed: when a LOW_STOCK handler is invoked for machine m as a result
\* of a sale, the repository's stockLevel for m is the level that sale
\* leaves and is < THRESHOLD; when a STOCK_OK handler is invoked for m as a
\* result of a refill, it is the level on entry plus the refill quantity and
\* is >= THRESHOLD.  In both cases it is the level the triggering handler
\* returns with.
C27_CommittedBeforeDerived ==
    IsPublish
        => \A i \in DerivedHandles :
               LET h == TriggerOf(i)
                   m == Out[i].event.machineId
                   level == Out[i].stock[m]
               IN  /\ Out[h].event.machineId = m
                   /\ \A j \in HandledOf(h) : Out[j].stock[m] = level
                   /\ Out[i].event.type = "LOW_STOCK"
                          => /\ Out[h].event.type = "SALE"
                             /\ level = SaleResult(Out[h].stock[m],
                                                    Out[h].event.sold)
                             /\ level < STOCK_THRESHOLD
                   /\ Out[i].event.type = "STOCK_OK"
                          => /\ Out[h].event.type = "REFILL"
                             /\ level = Out[h].stock[m] + Out[h].event.refill
                             /\ level >= STOCK_THRESHOLD
                   /\ Out[i].event.type \in {"LOW_STOCK", "STOCK_OK"}

C27_Witness ==
    /\ RefillOnSaved
    /\ last.exc = "none"
    /\ \E i \in DerivedHandles :
           /\ Out[i].handler = "stockOKSubscriber"
           /\ Out[i].stock[last.event.machineId] >= STOCK_THRESHOLD
           /\ Out[i].stock[last.event.machineId]
                  = last.before[last.event.machineId] + last.event.refill
           /\ Out[TriggerOf(i)].stock[last.event.machineId] < STOCK_THRESHOLD

----------------------------------------------------------------------------
\* The same program publishing Sale and Refill events of positive quantity
\* only, the kind of the last derived event of each machine kept beside it.
PositiveEvents ==
    {e \in LedgerEvents : \/ e.type = "SALE" /\ e.sold > 0
                          \/ e.type = "REFILL" /\ e.refill > 0}

\* The derived publish calls of an output that are about machine id.
DerivedFor(out, id) ==
    {i \in 1..Len(out) : /\ out[i].k = "publish"
                         /\ out[i].depth > 1
                         /\ out[i].event.machineId = id}

MostRecent(recent, out) ==
    [id \in DOMAIN recent |->
        IF DerivedFor(out, id) = {} THEN recent[id]
        ELSE LET i == CHOOSE i \in DerivedFor(out, id) :
                          \A o \in DerivedFor(out, id) : o <= i
             IN  out[i].event.type]

NextStream ==
    \/ GetInstance /\ UNCHANGED history
    \/ \E r \in LedgerRegistrations :
           /\ Count(r[2], subscribers[r[1]]) = 0
           /\ Subscribe(r[1], r[2])
           /\ UNCHANGED history
    \/ \E event \in PositiveEvents :
           /\ subscribers["SALE"] = <<"saleSubscriber">>
           /\ subscribers["REFILL"] = <<"refillSubscriber">>
           /\ Publish(event)
           /\ history' = [history EXCEPT
                              !.recent = MostRecent(@, last'.out)]

SpecStream == InitLedger /\ [][NextStream]_vars

\* C28: the notification stream tracks the stock state: with one sale and
\* one refill subscriber registered, machines starting at or above THRESHOLD
\* and positive quantities only, after every publish by the program the
\* derived event published last for machine m is a LowStockWarning if and
\* only if stockLevel(m) < THRESHOLD (there is none yet, or it is a StockOK,
\* if and only if stockLevel(m) >= THRESHOLD); and a StockOK for m is
\* published only when the derived event published last for m before it was
\* a LowStockWarning.
C28_StreamTracksStock ==
    /\ [](\A id \in DOMAIN machines :
             (history.recent[id] = "LOW_STOCK")
                 <=> (machines[id] < STOCK_THRESHOLD))
    /\ [][last'.op = "publish"
             => \A id \in DOMAIN machines :
                    \A i \in DerivedFor(last'.out, id) :
                        last'.out[i].event.type = "STOCK_OK"
                            => /\ history.recent[id] = "LOW_STOCK"
                               /\ Cardinality(DerivedFor(last'.out, id)) = 1]_vars

C28_Witness ==
    /\ RefillOnSaved
    /\ history.recent["001"] = "STOCK_OK"
    /\ history.recent["002"] = "LOW_STOCK"
    /\ machines["001"] >= STOCK_THRESHOLD
    /\ machines["002"] < STOCK_THRESHOLD
    /\ last.before["001"] < STOCK_THRESHOLD
    /\ last.event.machineId = "001"

----------------------------------------------------------------------------
\* The level n sale handlers (refill handlers) leave, one after the other.
RECURSIVE Applied(_, _, _)

Applied(n, event, level) ==
    IF n = 0 THEN level
    ELSE Applied(n - 1, event,
                 IF event.type = "SALE" THEN SaleResult(level, event.sold)
                 ELSE level + event.refill)

\* The handlers of the published event's own kind that were invoked.
PrimaryHandles == {i \in Idx("handle") : Out[i].depth = 1}

\* A published Sale or Refill for a machine the repository holds.
PrimaryOnSaved == SaleOnSaved \/ RefillOnSaved

\* LOW_STOCK and STOCK_OK hold no subscriber but the warning and the
\* stock-OK subscriber, which only log.
QuietNotifications ==
    \A t \in {"LOW_STOCK", "STOCK_OK"} :
        \A n \in 1..Len(subscribers[t]) :
            subscribers[t][n] \in {"stockWarningSubscriber", "stockOKSubscriber"}

----------------------------------------------------------------------------
\* The publish calls made by the handler invocation entered at entry i.
PublishedBy(i) ==
    {p \in Idx("publish") :
        /\ p > i
        /\ Out[p].depth = Out[i].depth + 1
        /\ \A o \in Idx("handle") :
               (o < p /\ Out[o].depth = Out[i].depth) => o <= i}

\* C30: a primary event derives at most one event per handler invocation,
\* and only of its own derived kind: an invocation handling a Sale publishes
\* no event or one LowStockWarning, never a StockOK; an invocation handling
\* a Refill publishes no event or one StockOK, never a LowStockWarning; for
\* every quantity (negative and zero included) and every stock level.  An
\* invocation handling a derived event publishes nothing.
C30_AtMostOneDerived ==
    IsPublish
        => \A i \in Idx("handle") :
               /\ Cardinality(PublishedBy(i)) <= 1
               /\ \A p \in PublishedBy(i) :
                      /\ Out[i].event.type \in {"SALE", "REFILL"}
                      /\ Out[p].event.type
                             = (IF Out[i].event.type = "SALE"
                                THEN "LOW_STOCK" ELSE "STOCK_OK")

C30_Witness ==
    /\ SaleOnSaved
    /\ last.exc = "none"
    /\ last.event.sold < 0
    /\ machines[last.event.machineId] > last.before[last.event.machineId]
    /\ Cardinality(PrimaryHandles) = 2
    /\ \E i \in PrimaryHandles : Cardinality(PublishedBy(i)) = 1
    /\ \E i \in PrimaryHandles : PublishedBy(i) = {}

----------------------------------------------------------------------------
\* The handlers of app.ts run to completion, one call after the other.  This
\* is the same sale and refill handler taken apart into its steps, with two
\* handlings of events for one machine free to take their steps in any
\* order: read stockBefore, write the new level, validate it (sale only),
\* then commit, or roll back to stockBefore.  history.handling holds each
\* handling's position, event and stockBefore; history.overlapped records
\* whether a handling ever began while the other was in progress, and
\* history.negative whether any handled event carried a negative quantity.

Handlings == {1, 2}

InterleavedEvents ==
    {MachineSaleEvent(q, id) : q \in {3, 8}, id \in SavedIds}
    \cup {MachineRefillEvent(q, id) : q \in {-3, 3}, id \in SavedIds}

\* The quantity an event carries.
QuantityOf(event) ==
    IF event.type = "SALE" THEN event.sold ELSE event.refill

Idle == [pc |-> "idle"]

InitInterleaved ==
    /\ instance = NoInstance
    /\ service = NoInstance
    /\ subscribers = [t \in MachineEventType |-> <<>>]
    /\ machines = [id \in SavedIds |-> InitialStock]
    /\ last = NoCall
    /\ history = [handling |-> [s \in Handlings |-> Idle],
                  overlapped |-> FALSE, negative |-> FALSE]

Step(s, thread) ==
    /\ history' = [history EXCEPT !.handling[s] = thread]
    /\ UNCHANGED <<subscribers, last, instance, service>>

\* findById, if (machine), let stockBefore = machine.stockLevel
ReadStockBefore(s, event) ==
    /\ history.handling[s].pc = "idle"
    /\ findById(machines, event.machineId)
    /\ history' = [history EXCEPT
                       !.handling[s] = [pc |-> "read", event |-> event,
                                        stockBefore |-> machines[event.machineId]],
                       !.overlapped =
                           @ \/ \E o \in Handlings \ {s} :
                                    history.handling[o].pc # "idle",
                       !.negative = @ \/ QuantityOf(event) < 0]
    /\ UNCHANGED <<subscribers, machines, last, instance, service>>

\* machine.stockLevel -= sold / machine.stockLevel += refill
WriteLevel(s) ==
    LET h == history.handling[s]
        id == h.event.machineId
        level == IF h.event.type = "SALE"
                 THEN machines[id] - h.event.sold
                 ELSE machines[id] + h.event.refill
    IN  /\ h.pc = "read"
        /\ level \in (0 - MaxOverdraft)..MaxStock
        /\ machines' = [machines EXCEPT ![id] = level]
        /\ Step(s, [h EXCEPT !.pc = IF h.event.type = "SALE"
                                    THEN "written" ELSE "valid"])

\* if (machine.stockLevel < 0) throw new StockError(...)
Validate(s) ==
    LET h == history.handling[s] IN
    /\ h.pc = "written"
    /\ UNCHANGED machines
    /\ Step(s, [h EXCEPT !.pc = IF machines[h.event.machineId] < 0
                                THEN "thrown" ELSE "valid"])

\* this.repository.update(machine), the level validated or never tested
Commit(s) ==
    /\ history.handling[s].pc = "valid"
    /\ UNCHANGED machines
    /\ Step(s, Idle)

\* catch: machine.stockLevel = stockBefore; this.repository.update(machine)
Rollback(s) ==
    LET h == history.handling[s] IN
    /\ h.pc = "thrown"
    /\ machines' = [machines EXCEPT ![h.event.machineId] = h.stockBefore]
    /\ Step(s, Idle)

NextInterleaved ==
    \/ \E s \in Handlings, event \in InterleavedEvents :
           ReadStockBefore(s, event)
    \/ \E s \in Handlings : WriteLevel(s)
    \/ \E s \in Handlings : Validate(s)
    \/ \E s \in Handlings : Commit(s)
    \/ \E s \in Handlings : Rollback(s)

SpecInterleaved == InitInterleaved /\ [][NextInterleaved]_vars

\* Both handlings have completed.
Quiet == \A s \in Handlings : history.handling[s].pc = "idle"

\* C31: the sale/refill read-modify-write is not atomic: a state with a
\* negative stockLevel after both handlings have completed is reachable when
\* two handlings for the same machine are interleaved between the handler's
\* steps, whereas no such state is reachable when each handling runs to
\* completion before the next starts.
C31_NegativeOnlyIfInterleaved ==
    (Quiet /\ ~history.overlapped)
        => \A id \in DOMAIN machines : machines[id] >= 0

\* The first half of C31: two interleaved handlings of non-negative
\* quantities have completed and left a negative stockLevel.
InterleavedNegative ==
    /\ Quiet
    /\ history.overlapped
    /\ ~history.negative
    /\ \E id \in DOMAIN machines : machines[id] < 0

\* The second half of C31 for non-negative quantities only: handlings that
\* run one after the other leave no negative stockLevel.
SequentialNonNegative ==
    (Quiet /\ ~history.overlapped /\ ~history.negative)
        => \A id \in DOMAIN machines : machines[id] >= 0

----------------------------------------------------------------------------
\* The dispatcher of the other variant of the program: a PubSubService with
\* a public constructor, made with new PubSubService().  Its Map starts
\* without keys and gets one per kind subscribed or unsubscribed; here it is
\* a function whose domain is the keys set so far.  It runs beside the
\* singleton and is given the same calls: history.plain is its Map and
\* history.out, history.exc, history.machines what its publish of the last
\* event does from the state the singleton's publish started in.  The
\* subscribers are the same objects, so what they publish themselves goes
\* through PubSubService.getInstance() in both runs.

\* new Map()
NewMap == <<>>

\* this.subscribers.get(type) || []
getOrEmpty(map, type) == IF type \in DOMAIN map THEN map[type] ELSE <<>>

\* this.subscribers.set(type, handlers)
setKey(map, type, handlers) ==
    [t \in DOMAIN map \cup {type} |-> IF t = type THEN handlers ELSE map[t]]

\* subscribePlain leaving the list alone when it holds the handler already.
subscribePlain_Dedup(map, type, handler) ==
    LET handlers == getOrEmpty(map, type) IN
    IF \E n \in 1..Len(handlers) : handlers[n] = handler
    THEN setKey(map, type, handlers)
    ELSE setKey(map, type, Append(handlers, handler))

\* subscribe of the constructible PubSubService
subscribePlain(map, type, handler) ==
    setKey(map, type, Append(getOrEmpty(map, type), handler))

\* unsubscribe of the constructible PubSubService
unsubscribePlain(map, type, handler) ==
    setKey(map, type,
           SelectSeq(getOrEmpty(map, type), LAMBDA h : h # handler))

\* publish of the constructible PubSubService: if (handlers) is true of every
\* array, the empty one included.
publishPlain(map, event, st, depth) ==
    LET handlers == getOrEmpty(map, event.type)
        called == Emit(st, [k |-> "publish", depth |-> depth, event |-> event,
                            stock |-> st.machines, self |-> st.self])
        done == IF handlers \in Seq(Subscribers)
                THEN mapHandlers(handlers, 1, event, called, depth)
                ELSE called
    IN  IF done.exc # "none" THEN done
        ELSE Emit(done, [k |-> "return", depth |-> depth, event |-> event,
                         stock |-> done.machines])

SideBySideEvents ==
    {MachineSaleEvent(q, id) : q \in {2, 8}, id \in SavedIds}
    \cup {MachineRefillEvent(q, id) : q \in {3}, id \in SavedIds}
    \cup {LowStockWarningEvent(id) : id \in SavedIds}

InitSideBySide ==
    /\ instance = NoInstance
    /\ service = NoInstance
    /\ subscribers = [t \in MachineEventType |-> <<>>]
    /\ machines = [id \in SavedIds |-> InitialStock]
    /\ last = NoCall
    /\ history = [plain |-> NewMap, out |-> <<>>, exc |-> "none",
                  machines |-> machines]

SubscribePlain(type, handler) ==
    history' = [plain |-> subscribePlain(history.plain, type, handler),
                out |-> <<>>, exc |-> "none", machines |-> machines']

UnsubscribePlain(type, handler) ==
    history' = [plain |-> unsubscribePlain(history.plain, type, handler),
                out |-> <<>>, exc |-> "none", machines |-> machines']

PublishPlain(event) ==
    LET done == publishPlain(history.plain, event,
                             [machines |-> machines, out |-> <<>>,
                              exc |-> "none", instance |-> instance,
                              self |-> service],
                             1)
    IN  history' = [plain |-> history.plain, out |-> done.out,
                    exc |-> done.exc, machines |-> done.machines]

NextSideBySide ==
    \/ GetInstance /\ UNCHANGED history
    \/ \E r \in Registrations :
           Subscribe(r[1], r[2]) /\ SubscribePlain(r[1], r[2])
    \/ \E r \in Registrations :
           Unsubscribe(r[1], r[2]) /\ UnsubscribePlain(r[1], r[2])
    \/ \E event \in SideBySideEvents : Publish(event) /\ PublishPlain(event)

SpecSideBySide == InitSideBySide /\ [][NextSideBySide]_vars

\* The subscribers a publish call invoked, in order, each with the event
\* it was handed and the depth of the call that handed it over.
Invoked(out) ==
    LET entered == SelectSeq(out, LAMBDA x : x.k = "handle")
    IN  [n \in 1..Len(entered) |->
            <<entered[n].handler, entered[n].event, entered[n].depth>>]

\* C32: the singleton dispatcher and the plainly constructible one have the
\* same publish/subscribe/unsubscribe semantics: given the same subscribe,
\* unsubscribe and publish calls from an empty registry, every publish
\* invokes the same subscribers, the same number of times, in the same
\* order on both, ends the same way (returns or raises) and leaves the same
\* stock levels, and the two registries hold the same lists.
C32_SameSemantics ==
    /\ \A t \in MachineEventType :
           getOrEmpty(history.plain, t) = getHandlers(subscribers, t)
    /\ IsPublish
           => /\ Invoked(history.out) = Invoked(last.out)
              /\ history.exc = last.exc
              /\ history.machines = machines

\* Both dispatchers have delivered a sale to a subscriber registered twice
\* and then the derived warning, after an unsubscribe that left the
\* constructible one's Map a key with an empty list, with a kind never
\* touched and so without a key.
C32_Witness ==
    /\ IsPublish
    /\ last.event.type = "SALE"
    /\ Len(Invoked(last.out)) >= 3
    /\ Invoked(history.out) = Invoked(last.out)
    /\ \E n \in 1..Len(Invoked(last.out)) : Invoked(last.out)[n][3] = 2
    /\ \E t \in DOMAIN history.plain : history.plain[t] = <<>>
    /\ DOMAIN history.plain # MachineEventType

====
